---- MODULE Spec2Model ----
(***************************************************************************)
(* onomondo-traffic (index.js): the command line run that resolves         *)
(* identifiers to addresses, lists the day-bucketed pcap objects of a time *)
(* range on AWS S3 / Azure Blob Storage, downloads them into a scratch     *)
(* folder, filters them with tshark, merges them with mergecap and renames *)
(* the result.                                                             *)
(*                                                                         *)
(* Time is counted in ticks (the minute resolution of the object keys);    *)
(* a UTC day has TicksPerDay ticks, instant t lies in day t \div           *)
(* TicksPerDay.  An object key "yyyy/MM/dd/HH/mm-....pcap" is the record   *)
(* [day, hm]: its day prefix and its time of day, hm = NaN when the        *)
(* HH/mm part does not parse.                                              *)
(***************************************************************************)
EXTENDS Integers, Sequences, FiniteSets, TLC

VARIABLES
  given,       \* the parameters of argv / conf.json that carry a value
  from, to,    \* new Date(getParam('from')), new Date(getParam('to'))
  simIds, iccIds,
  ips,         \* the addresses given, then those resolved pushed after them
  remote,      \* the objects held by the backend a direct listing call reads
  pc,          \* where the script stands
  tmpFolder,   \* the scratch folder: "absent", "present" or "removed"
  exitStatus,  \* "running", "zero" or "nonzero"
  diagnostic,  \* which message the run ended with
  log,         \* the external calls made so far, in order
  index,       \* the index of the loop the run is in
  pcapFilesOnS3, pcapFilesOnBlobStorage,
  pcapFilenames,             \* filenames collected by the running loop
  pcapFilesLocally, filteredPcapFilesLocally,
  merged,      \* whether mergecap left merged.pcap in the scratch folder
  finalFile,   \* whether the file of the final name exists
  finalFilename,  \* the name generateFilename made
  inFlight,    \* the calls a loop has made whose promise has not settled
  reports      \* the progress lines the download loops have written

vars == <<given, from, to, simIds, iccIds, ips, remote, pc, tmpFolder, exitStatus,
          diagnostic, log, index, pcapFilesOnS3, pcapFilesOnBlobStorage,
          pcapFilenames, pcapFilesLocally, filteredPcapFilesLocally, merged, finalFile,
          finalFilename, inFlight, reports>>

\* What the script reads once from argv and conf.json.
parameters == <<given, from, to, simIds, iccIds>>

\* ---- bounds of the model
Days == 2          \* UTC days the instants and the keys range over
TicksPerDay == 3   \* instants per day
MaxObjects == 2    \* objects a bucket / container holds
MaxIds == 1        \* simids, iccids and ips given on the command line, each
NumAddresses == 2  \* addresses the lookup API can answer with
MaxRest == 1       \* characters of a key after its time of day
MaxNamed == 3      \* simids, iccids and ips a direct call of generateFilename is given, each

\* ---- dates (date-fns, process.env.TZ = 'UTC')
\* An Invalid Date: every comparison with it is false.
NaN == -1

Times == 0 .. (Days * TicksPerDay - 1)

isValid(d) == d # NaN

\* JS relational comparison of Dates: false when either is an Invalid Date.
DateLt(a, b) == isValid(a) /\ isValid(b) /\ a < b

\* format(d, 'yyyy/MM/dd'): the day prefix of an instant.
format(d) == d \div TicksPerDay

\* startOfDay(addDays(d, 1))
startOfNextDay(d) == (d \div TicksPerDay + 1) * TicksPerDay

\* parse(key.split('.pcap')[0].split('-')[0], 'yyyy/MM/dd/HH/mm', new Date())
parse(key) == IF key.hm = NaN THEN NaN ELSE key.day * TicksPerDay + key.hm

\* ---- object keys and backend contents
Keys == [day : 0 .. (Days - 1), hm : (0 .. (TicksPerDay - 1)) \cup {NaN}]

Stores == {S \in SUBSET Keys : Cardinality(S) <= MaxObjects}

\* Keys list in lexicographic order: by day, then by time of day.
KeyRank(key) == key.day * (TicksPerDay + 1) + key.hm + 1

RECURSIVE InKeyOrder(_)
InKeyOrder(S) ==
  IF S = {} THEN <<>>
  ELSE LET first == CHOOSE k \in S : \A o \in S : KeyRank(k) <= KeyRank(o)
       IN <<first>> \o InKeyOrder(S \ {first})

\* s3.listObjects({ Prefix }) / client.listBlobsFlat({ prefix }): the objects
\* under one day prefix, in listing order.
listObjects(contents, prefix) == InKeyOrder({k \in contents : k.day = prefix})

\* ---- the listing (index.js 320-378)
\* isInRange with the lower end of the range let in.
isInRange_inclusiveFrom(filename, rangeFrom, rangeTo) ==
  LET date == parse(filename)
  IN isValid(date) /\ rangeFrom <= date /\ DateLt(date, rangeTo)

\* isInRange (374-378): from < date && date < to.
isInRange(filename, rangeFrom, rangeTo) ==
  LET date == parse(filename)
  IN DateLt(rangeFrom, date) /\ DateLt(date, rangeTo)

\* getListOfAllPcapFilesOnS3Recursive going on for a day after the cursor has
\* passed the end of the range.
RECURSIVE getListOfAllPcapFilesOnS3Recursive_pastTo(_, _, _)
getListOfAllPcapFilesOnS3Recursive_pastTo(contents, rangeFrom, rangeTo) ==
  IF rangeFrom > rangeTo + TicksPerDay THEN [files |-> <<>>, calls |-> <<>>]
  ELSE LET keyTimestamp == format(rangeFrom)
           allFilesFromDay == listObjects(contents, keyTimestamp)
           filesInRange ==
             SelectSeq(allFilesFromDay, LAMBDA f : isInRange(f, rangeFrom, rangeTo))
           nextFrom == startOfNextDay(rangeFrom)
           nextFiles ==
             getListOfAllPcapFilesOnS3Recursive_pastTo(contents, nextFrom, rangeTo)
       IN [files |-> filesInRange \o nextFiles.files,
           calls |-> <<keyTimestamp>> \o nextFiles.calls]

\* getListOfAllPcapFilesOnS3Recursive (346-360) over the contents of the bucket:
\* the files in range and the day prefixes it listed, in call order.
RECURSIVE getListOfAllPcapFilesOnS3Recursive(_, _, _)
getListOfAllPcapFilesOnS3Recursive(contents, rangeFrom, rangeTo) ==
  IF rangeFrom > rangeTo THEN [files |-> <<>>, calls |-> <<>>]
  ELSE LET keyTimestamp == format(rangeFrom)
           allFilesFromDay == listObjects(contents, keyTimestamp)
           filesInRange ==
             SelectSeq(allFilesFromDay, LAMBDA f : isInRange(f, rangeFrom, rangeTo))
           nextFrom == startOfNextDay(rangeFrom)
           nextFiles == getListOfAllPcapFilesOnS3Recursive(contents, nextFrom, rangeTo)
       IN [files |-> filesInRange \o nextFiles.files,
           calls |-> <<keyTimestamp>> \o nextFiles.calls]

\* getListOfAllPcapFilesOnBlobStorageRecursive (320-337), likewise.
RECURSIVE getListOfAllPcapFilesOnBlobStorageRecursive(_, _, _)
getListOfAllPcapFilesOnBlobStorageRecursive(contents, rangeFrom, rangeTo) ==
  IF rangeFrom > rangeTo THEN [files |-> <<>>, calls |-> <<>>]
  ELSE LET keyTimestamp == format(rangeFrom)
           allFilesFromDay == listObjects(contents, keyTimestamp)
           filesInRange ==
             SelectSeq(allFilesFromDay, LAMBDA f : isInRange(f, rangeFrom, rangeTo))
           nextFrom == startOfNextDay(rangeFrom)
           nextFiles ==
             getListOfAllPcapFilesOnBlobStorageRecursive(contents, nextFrom, rangeTo)
       IN [files |-> filesInRange \o nextFiles.files,
           calls |-> <<keyTimestamp>> \o nextFiles.calls]

\* ---- parameters and validation (index.js 18-52)
S3Params == {"s3-bucket", "s3-region", "aws-access-key-id", "aws-secret-access-key"}

BlobStorageParams == {"blob-storage-sas-uri", "blob-storage-connection-string",
                      "blob-storage-container-name"}

ALLOWED_PARAMS == S3Params \cup BlobStorageParams \cup {"token"}

\* A parameter that is not allowed (and does not start with _).
Disallowed == "onomondo-token"

Addresses == 1 .. NumAddresses

\* The identifiers or addresses given: the first n of them, n <= MaxIds.
Given(n) == [i \in 1 .. n |-> i]

\* hasTokenIfNeeded with the iccids forgotten.
hasTokenIfNeeded_simIdsOnly ==
  IF Len(simIds) # 0 THEN "token" \in given ELSE TRUE

hasTokenIfNeeded ==
  IF Len(iccIds) # 0 \/ Len(simIds) # 0 THEN "token" \in given ELSE TRUE

areDatesValid == isValid(from) /\ isValid(to)

isUsingBlobStorage ==
  \/ "blob-storage-sas-uri" \in given
  \/ "blob-storage-connection-string" \in given
  \/ "blob-storage-container-name" \in given

hasAllBlobStorageParams ==
  /\ ("blob-storage-sas-uri" \in given \/ "blob-storage-connection-string" \in given)
  /\ "blob-storage-container-name" \in given

isUsingS3 == S3Params \cap given # {}

hasAllS3Params == S3Params \subseteq given

\* from and to are Date objects, which are truthy also when invalid.
hasAllRequiredParams == isUsingBlobStorage \/ isUsingS3

isRangeValid == DateLt(from, to)

\* The first check of lines 69-84 that fails, "none" when all pass.
ValidationError ==
  IF \E key \in given : key \notin ALLOWED_PARAMS THEN "not allowed"
  ELSE IF ~hasAllRequiredParams THEN "missing"
  ELSE IF ~areDatesValid THEN "dates"
  ELSE IF ~isRangeValid THEN "range"
  ELSE IF ~hasTokenIfNeeded THEN "token"
  ELSE IF isUsingS3 /\ ~hasAllS3Params THEN "s3"
  ELSE IF isUsingBlobStorage /\ ~hasAllBlobStorageParams THEN "blob"
  ELSE IF ~isUsingBlobStorage /\ ~isUsingS3 THEN "backend"
  ELSE "none"

\* ---- the log of external calls
Event(op, arg, ok) == [op |-> op, arg |-> arg, ok |-> ok]

ListEvents(op, calls) == [i \in 1 .. Len(calls) |-> Event(op, calls[i], TRUE)]

Ops(l) == {l[i].op : i \in 1 .. Len(l)}

NetworkOps == {"npm", "lookup", "listS3", "listBlob", "getS3", "getBlob"}

Terminated == pc \in {"exited", "rejected", "crashed", "done"}

\* ---- how the process ends
\* exit(err), index.js 380-385: prints and process.exit(1); nothing else.
exit(err) ==
  /\ pc' = "exited"
  /\ exitStatus' = "nonzero"
  /\ diagnostic' = err

\* A rejection of the promise run() returns: run() is called without a catch
\* (line 93), so nothing of the script runs after it.  Node warns and ends with
\* status 0 (up to version 14) or ends with status 1 (from version 15).
reject ==
  /\ pc' = "rejected"
  /\ exitStatus' \in {"zero", "nonzero"}
  /\ diagnostic' = "unhandled rejection"

\* An 'error' event of a stream nobody listens to (the read stream of
\* s3.getObject, lines 227-231): an uncaught exception, the process ends at once.
uncaught ==
  /\ pc' = "crashed"
  /\ exitStatus' = "nonzero"
  /\ diagnostic' = "uncaught exception"

\* ---- the stages of run() (index.js 108-176)
StageAfterLookups == IF isUsingS3 THEN "listS3" ELSE "listBlob"

StageAfterSimIds == IF Len(iccIds) > 0 THEN "iccids" ELSE StageAfterLookups

StageAfterVersion == IF Len(simIds) > 0 THEN "simids" ELSE StageAfterSimIds

\* shouldFilter with the test of the addresses dropped.
shouldFilter_always == TRUE

shouldFilter == Len(ips) > 0

\* path.join(tmpFolder, key.replace(/\//g, '-')) and path.join(dir, `f-${base}`)
LocalName(key) == [filtered |-> FALSE, key |-> key]

FilteredName(filename) == [filtered |-> TRUE, key |-> filename.key]

\* format(d, "yyyy-MM-dd HH'h'mm'm'") (96): the day and the minute of a date.
formatMinutes(d) == [day |-> d \div TicksPerDay, hm |-> d % TicksPerDay]

\* The name before generateFilename has run.
NoName == [from |-> [day |-> NaN, hm |-> NaN], to |-> [day |-> NaN, hm |-> NaN],
           ids |-> <<>>]

\* generateFilename without the fallback for more than five identifiers.
generateFilename_anyNumber ==
  [from |-> formatMinutes(from), to |-> formatMinutes(to),
   ids |-> iccIds \o simIds \o ips]

\* generateFilename (95-106): "Onomondo traffic from <from> to <to>", then
\* " for <ids>" when there are one to five of them, then ".pcap".  ids is the
\* list the suffix names, empty for the name of the range alone.
generateFilename ==
  LET allIds == iccIds \o simIds \o ips
  IN [from |-> formatMinutes(from), to |-> formatMinutes(to),
      ids |-> IF Len(allIds) = 0 \/ Len(allIds) > 5 THEN <<>> ELSE allIds]

\* ---- the loops that await one call per round
Call(op, arg) == [op |-> op, arg |-> arg]

\* The loops without their await: the next round starts at once.
awaited_never == TRUE

\* `await` in the body of a for loop (188, 216, 240, 249, 279): the next round
\* starts when the promise of this round has settled.
awaited == inFlight = {}

\* The rounds of the running loop that have made their call.
Started == index + Cardinality(inFlight)

\* file.Size / file.properties.contentLength of a listed object.
Size(key) == KeyRank(key)

RECURSIVE totalSize(_)
\* files.reduce((totalSize, { Size }) => totalSize + Size, 0) (180, 208)
totalSize(files) ==
  IF files = <<>> THEN 0 ELSE Size(Head(files)) + totalSize(Tail(files))

\* Lines 186-187 and 214-215 in round i: downloadedSize += Size, then the line
\* "[i/totalFiles (downloadedSize/totalSize)]" is written.
Progress(op, files, i) ==
  LET downloadedSize == IF i = 1 THEN 0 ELSE reports[Len(reports)].downloadedSize
  IN [op |-> op, files |-> i, totalFiles |-> Len(files),
      downloadedSize |-> downloadedSize + Size(files[i]),
      totalSize |-> totalSize(files)]

\* Lines 25-109, the script up to the first await of run(), which runs in one
\* go: the parameters are read, the scratch folder is made (52), the checks end
\* the process (69-84) or run() is called (93) and makes the final name (109).
Start ==
  /\ pc = "start"
  /\ given' \in SUBSET (ALLOWED_PARAMS \cup {Disallowed})
  /\ from' \in Times \cup {NaN}
  /\ to' \in Times \cup {NaN}
  /\ simIds' \in {Given(n) : n \in 0 .. MaxIds}
  /\ iccIds' \in {Given(n) : n \in 0 .. MaxIds}
  /\ ips' \in {Given(n) : n \in 0 .. MaxIds}
  /\ log' = <<Event("mkdtemp", 0, TRUE)>>
  /\ IF ValidationError' # "none"
       THEN /\ exit(ValidationError')
            /\ UNCHANGED finalFilename
       ELSE /\ pc' = "mergecap"
            /\ finalFilename' = generateFilename'
            /\ UNCHANGED <<exitStatus, diagnostic>>
  /\ tmpFolder' = "present"
  /\ UNCHANGED <<remote, index, pcapFilesOnS3, pcapFilesOnBlobStorage, pcapFilenames,
                 pcapFilesLocally, filteredPcapFilesLocally, merged, finalFile,
                 inFlight, reports>>

\* MergeCapExists with the answer of the probe ignored.
MergeCapExists_ignored ==
  /\ pc = "mergecap"
  /\ \E hasMergecap \in BOOLEAN :
       /\ log' = Append(log, Event("probe", 0, hasMergecap))
       /\ pc' = "version"
       /\ UNCHANGED <<exitStatus, diagnostic>>
  /\ UNCHANGED <<parameters, finalFilename, inFlight, reports, tmpFolder, finalFile,
                 ips, remote, index, pcapFilesOnS3, pcapFilesOnBlobStorage,
                 pcapFilenames, pcapFilesLocally, filteredPcapFilesLocally, merged>>

\* Lines 111-118 and 303-311: spawn('mergecap'); 'error' answers false and
\* the run exits.
MergeCapExists ==
  /\ pc = "mergecap"
  /\ \E hasMergecap \in BOOLEAN :
       /\ log' = Append(log, Event("probe", 0, hasMergecap))
       /\ IF ~hasMergecap
            THEN exit("mergecap")
            ELSE /\ pc' = "version"
                 /\ UNCHANGED <<exitStatus, diagnostic>>
  /\ UNCHANGED <<parameters, finalFilename, inFlight, reports, tmpFolder, finalFile,
                 ips, remote, index, pcapFilesOnS3, pcapFilesOnBlobStorage,
                 pcapFilenames, pcapFilesLocally, filteredPcapFilesLocally, merged>>

\* Lines 120-123 and 369-372: the public version is fetched from the registry.
GetPublicVersion ==
  /\ pc = "version"
  /\ \E answered \in BOOLEAN :
       /\ log' = Append(log, Event("npm", 0, answered))
       /\ IF answered
            THEN /\ pc' = StageAfterVersion
                 /\ UNCHANGED <<exitStatus, diagnostic>>
            ELSE reject
  /\ index' = 0
  /\ UNCHANGED <<parameters, finalFilename, inFlight, reports, tmpFolder, finalFile,
                 ips, remote, pcapFilesOnS3, pcapFilesOnBlobStorage, pcapFilenames,
                 pcapFilesLocally, filteredPcapFilesLocally, merged>>

\* getIpFromSimOrIccId (362-367): axios.get rejects on a response that is not
\* 2xx; otherwise the address is data.ipv4.
Answers == Addresses \cup {0}

\* Lines 239-240: a round of the loop of convertSimIdsIntoIps asks for the
\* address of the next simid.
GetIpFromSimId ==
  /\ pc = "simids"
  /\ awaited
  /\ Started < Len(simIds)
  /\ inFlight' = inFlight \cup {Call("lookup", Started + 1)}
  /\ UNCHANGED <<parameters, finalFilename, reports, tmpFolder, finalFile, ips,
                 remote, pc, exitStatus, diagnostic, log, index, pcapFilesOnS3,
                 pcapFilesOnBlobStorage, pcapFilenames, pcapFilesLocally,
                 filteredPcapFilesLocally, merged>>

\* ConvertSimId with a failed lookup skipped and the loop going on.
ConvertSimId_swallow ==
  /\ pc = "simids"
  /\ \E call \in inFlight, answer \in Answers :
       /\ inFlight' = inFlight \ {call}
       /\ log' = Append(log, Event("lookup", answer, answer # 0))
       /\ ips' = IF answer # 0 THEN Append(ips, answer) ELSE ips
       /\ index' = IF index + 1 < Len(simIds) THEN index + 1 ELSE 0
       /\ pc' = IF index + 1 < Len(simIds) THEN "simids" ELSE StageAfterSimIds
       /\ UNCHANGED <<exitStatus, diagnostic>>
  /\ UNCHANGED <<parameters, finalFilename, reports, tmpFolder, finalFile, remote,
                 pcapFilesOnS3, pcapFilesOnBlobStorage, pcapFilenames,
                 pcapFilesLocally, filteredPcapFilesLocally, merged>>

\* Lines 240-242 of convertSimIdsIntoIps (237-244): the lookup settles; its
\* address is pushed onto ips, its failure rejects run().
ConvertSimId ==
  /\ pc = "simids"
  /\ \E call \in inFlight, answer \in Answers :
       /\ inFlight' = inFlight \ {call}
       /\ log' = Append(log, Event("lookup", answer, answer # 0))
       /\ IF answer # 0
            THEN /\ ips' = Append(ips, answer)
                 /\ index' = IF index + 1 < Len(simIds) THEN index + 1 ELSE 0
                 /\ pc' = IF index + 1 < Len(simIds) THEN "simids" ELSE StageAfterSimIds
                 /\ UNCHANGED <<exitStatus, diagnostic>>
            ELSE /\ reject
                 /\ UNCHANGED <<ips, index>>
  /\ UNCHANGED <<parameters, finalFilename, reports, tmpFolder, finalFile, remote,
                 pcapFilesOnS3, pcapFilesOnBlobStorage, pcapFilenames,
                 pcapFilesLocally, filteredPcapFilesLocally, merged>>

\* Lines 248-249: a round of the loop of convertIccIdsIntoIps asks for the
\* address of the next iccid.
GetIpFromIccId ==
  /\ pc = "iccids"
  /\ awaited
  /\ Started < Len(iccIds)
  /\ inFlight' = inFlight \cup {Call("lookup", Started + 1)}
  /\ UNCHANGED <<parameters, finalFilename, reports, tmpFolder, finalFile, ips,
                 remote, pc, exitStatus, diagnostic, log, index, pcapFilesOnS3,
                 pcapFilesOnBlobStorage, pcapFilenames, pcapFilesLocally,
                 filteredPcapFilesLocally, merged>>

\* Lines 249-251 of convertIccIdsIntoIps (246-253): the lookup settles.
ConvertIccId ==
  /\ pc = "iccids"
  /\ \E call \in inFlight, answer \in Answers :
       /\ inFlight' = inFlight \ {call}
       /\ log' = Append(log, Event("lookup", answer, answer # 0))
       /\ IF answer # 0
            THEN /\ ips' = Append(ips, answer)
                 /\ index' = IF index + 1 < Len(iccIds) THEN index + 1 ELSE 0
                 /\ pc' = IF index + 1 < Len(iccIds) THEN "iccids" ELSE StageAfterLookups
                 /\ UNCHANGED <<exitStatus, diagnostic>>
            ELSE /\ reject
                 /\ UNCHANGED <<ips, index>>
  /\ UNCHANGED <<parameters, finalFilename, reports, tmpFolder, finalFile, remote,
                 pcapFilesOnS3, pcapFilesOnBlobStorage, pcapFilenames,
                 pcapFilesLocally, filteredPcapFilesLocally, merged>>

\* The day prefixes a listing of the range from..to reads; what the backend
\* holds elsewhere, no call of the run sees.
ListedDays == {d \in 0 .. (Days - 1) : format(from) <= d /\ d <= format(to)}

StoresUnder(days) == {S \in Stores : \A k \in S : k.day \in days}

\* Lines 158-165, entered with the files downloaded: filterPcapFiles when there
\* are addresses (its loop makes no round on no files), then mergePcapFiles.
Pipeline(files) ==
  /\ pcapFilesLocally' = files
  /\ index' = 0
  /\ pcapFilenames' = <<>>
  /\ IF shouldFilter /\ Len(files) > 0
       THEN /\ pc' = "filter"
            /\ UNCHANGED filteredPcapFilesLocally
       ELSE /\ pc' = "merge"
            /\ filteredPcapFilesLocally' = IF shouldFilter THEN <<>> ELSE files

\* Lines 144-149: the S3 downloads become pcapFilesLocally; Blob Storage is
\* listed next when its parameters are given too.
DoneWithS3(files) ==
  IF isUsingBlobStorage
    THEN /\ pcapFilesLocally' = files
         /\ index' = 0
         /\ pcapFilenames' = <<>>
         /\ pc' = "listBlob"
         /\ UNCHANGED filteredPcapFilesLocally
    ELSE Pipeline(files)

\* Lines 140-141, 339-360: one listObjects call per day; a call that fails
\* rejects run().
ListS3 ==
  /\ pc = "listS3"
  /\ \/ \E contents \in StoresUnder(ListedDays) :
          LET listed == getListOfAllPcapFilesOnS3Recursive(contents, from, to)
          IN /\ log' = log \o ListEvents("listS3", listed.calls)
             /\ pcapFilesOnS3' = listed.files
             /\ IF listed.files = <<>>
                  THEN DoneWithS3(<<>>)
                  ELSE /\ pc' = "getS3"
                       /\ index' = 0
                       /\ pcapFilenames' = <<>>
                       /\ UNCHANGED <<pcapFilesLocally, filteredPcapFilesLocally>>
             /\ UNCHANGED <<exitStatus, diagnostic>>
     \/ LET calls == getListOfAllPcapFilesOnS3Recursive({}, from, to).calls
        IN \E n \in 1 .. Len(calls) :
             /\ log' = log \o ListEvents("listS3", SubSeq(calls, 1, n - 1))
                           \o <<Event("listS3", calls[n], FALSE)>>
             /\ reject
             /\ UNCHANGED <<pcapFilesOnS3, index, pcapFilenames, pcapFilesLocally,
                            filteredPcapFilesLocally>>
  /\ UNCHANGED <<parameters, finalFilename, inFlight, reports, tmpFolder, finalFile,
                 ips, remote, pcapFilesOnBlobStorage, merged>>

\* Lines 213-216: a round of the loop of downloadAllPcapFilesOnS3 adds the size
\* of the next object, writes the progress line and calls downloadPcapFileOnS3.
DownloadAllPcapFilesOnS3 ==
  /\ pc = "getS3"
  /\ awaited
  /\ Started < Len(pcapFilesOnS3)
  /\ reports' = Append(reports, Progress("getS3", pcapFilesOnS3, Started + 1))
  /\ inFlight' = inFlight \cup {Call("getS3", Started + 1)}
  /\ UNCHANGED <<parameters, finalFilename, tmpFolder, finalFile, ips,
                 remote, pc, exitStatus, diagnostic, log, index, pcapFilesOnS3,
                 pcapFilesOnBlobStorage, pcapFilenames, pcapFilesLocally,
                 filteredPcapFilesLocally, merged>>

\* DownloadPcapFileOnS3 with a failed download skipped and the loop going on.
DownloadPcapFileOnS3_swallow ==
  /\ pc = "getS3"
  /\ \E call \in inFlight, outcome \in {"finish", "write error", "read error"} :
       /\ inFlight' = inFlight \ {call}
       /\ log' = Append(log, Event("getS3", call.arg, outcome = "finish"))
       /\ LET filenames ==
                IF outcome = "finish"
                  THEN Append(pcapFilenames, LocalName(pcapFilesOnS3[call.arg]))
                  ELSE pcapFilenames
          IN IF index + 1 < Len(pcapFilesOnS3)
               THEN /\ index' = index + 1
                    /\ pcapFilenames' = filenames
                    /\ UNCHANGED <<pc, pcapFilesLocally, filteredPcapFilesLocally>>
               ELSE DoneWithS3(filenames)
       /\ UNCHANGED <<exitStatus, diagnostic>>
  /\ UNCHANGED <<parameters, finalFilename, reports, tmpFolder, finalFile, ips,
                 remote, pcapFilesOnS3, pcapFilesOnBlobStorage, merged>>

\* downloadPcapFileOnS3 (223-235) settles and the round ends (216-217).  The
\* promise resolves on 'finish' and rejects on an 'error' of the write stream;
\* the read stream of s3.getObject has no 'error' listener.
DownloadPcapFileOnS3 ==
  /\ pc = "getS3"
  /\ \E call \in inFlight, outcome \in {"finish", "write error", "read error"} :
       /\ inFlight' = inFlight \ {call}
       /\ log' = Append(log, Event("getS3", call.arg, outcome = "finish"))
       /\ IF outcome = "finish"
            THEN LET filenames == Append(pcapFilenames, LocalName(pcapFilesOnS3[call.arg]))
                 IN /\ IF index + 1 < Len(pcapFilesOnS3)
                         THEN /\ index' = index + 1
                              /\ pcapFilenames' = filenames
                              /\ UNCHANGED <<pc, pcapFilesLocally, filteredPcapFilesLocally>>
                         ELSE DoneWithS3(filenames)
                    /\ UNCHANGED <<exitStatus, diagnostic>>
            ELSE /\ IF outcome = "write error" THEN reject ELSE uncaught
                 /\ UNCHANGED <<index, pcapFilenames, pcapFilesLocally,
                                filteredPcapFilesLocally>>
  /\ UNCHANGED <<parameters, finalFilename, reports, tmpFolder, finalFile, ips,
                 remote, pcapFilesOnS3, pcapFilesOnBlobStorage, merged>>

\* Lines 150-151, 313-337: one listBlobsFlat iteration per day.
ListBlobStorage ==
  /\ pc = "listBlob"
  /\ \/ \E contents \in StoresUnder(ListedDays) :
          LET listed == getListOfAllPcapFilesOnBlobStorageRecursive(contents, from, to)
          IN /\ log' = log \o ListEvents("listBlob", listed.calls)
             /\ pcapFilesOnBlobStorage' = listed.files
             /\ IF listed.files = <<>>
                  THEN Pipeline(<<>>)
                  ELSE /\ pc' = "getBlob"
                       /\ index' = 0
                       /\ pcapFilenames' = <<>>
                       /\ UNCHANGED <<pcapFilesLocally, filteredPcapFilesLocally>>
             /\ UNCHANGED <<exitStatus, diagnostic>>
     \/ LET calls == getListOfAllPcapFilesOnBlobStorageRecursive({}, from, to).calls
        IN \E n \in 1 .. Len(calls) :
             /\ log' = log \o ListEvents("listBlob", SubSeq(calls, 1, n - 1))
                           \o <<Event("listBlob", calls[n], FALSE)>>
             /\ reject
             /\ UNCHANGED <<pcapFilesOnBlobStorage, index, pcapFilenames, pcapFilesLocally,
                            filteredPcapFilesLocally>>
  /\ UNCHANGED <<parameters, finalFilename, inFlight, reports, tmpFolder, finalFile,
                 ips, remote, pcapFilesOnS3, merged>>

\* Lines 185-188: a round of the loop of downloadAllPcapFilesOnBlobStorage adds
\* the size of the next blob, writes the progress line and calls
\* downloadPcapFileOnBlobStorage.
DownloadAllPcapFilesOnBlobStorage ==
  /\ pc = "getBlob"
  /\ awaited
  /\ Started < Len(pcapFilesOnBlobStorage)
  /\ reports' = Append(reports, Progress("getBlob", pcapFilesOnBlobStorage, Started + 1))
  /\ inFlight' = inFlight \cup {Call("getBlob", Started + 1)}
  /\ UNCHANGED <<parameters, finalFilename, tmpFolder, finalFile, ips,
                 remote, pc, exitStatus, diagnostic, log, index, pcapFilesOnS3,
                 pcapFilesOnBlobStorage, pcapFilenames, pcapFilesLocally,
                 filteredPcapFilesLocally, merged>>

\* downloadPcapFileOnBlobStorage (195-204) settles and the round ends (188-189).
DownloadPcapFileOnBlobStorage ==
  /\ pc = "getBlob"
  /\ \E call \in inFlight, downloaded \in BOOLEAN :
       /\ inFlight' = inFlight \ {call}
       /\ log' = Append(log, Event("getBlob", call.arg, downloaded))
       /\ IF downloaded
            THEN LET filenames ==
                       Append(pcapFilenames, LocalName(pcapFilesOnBlobStorage[call.arg]))
                 IN /\ IF index + 1 < Len(pcapFilesOnBlobStorage)
                         THEN /\ index' = index + 1
                              /\ pcapFilenames' = filenames
                              /\ UNCHANGED <<pc, pcapFilesLocally, filteredPcapFilesLocally>>
                         ELSE Pipeline(filenames)
                    /\ UNCHANGED <<exitStatus, diagnostic>>
            ELSE /\ reject
                 /\ UNCHANGED <<index, pcapFilenames, pcapFilesLocally,
                                filteredPcapFilesLocally>>
  /\ UNCHANGED <<parameters, finalFilename, reports, tmpFolder, finalFile, ips,
                 remote, pcapFilesOnS3, pcapFilesOnBlobStorage, merged>>

\* Lines 278-279: a round of the loop of filterPcapFiles calls filterWithTshark
\* on the next file.
FilterPcapFiles ==
  /\ pc = "filter"
  /\ awaited
  /\ Started < Len(pcapFilesLocally)
  /\ inFlight' = inFlight \cup {Call("tshark", Started + 1)}
  /\ UNCHANGED <<parameters, finalFilename, reports, tmpFolder, finalFile, ips,
                 remote, pc, exitStatus, diagnostic, log, index, pcapFilesOnS3,
                 pcapFilesOnBlobStorage, pcapFilenames, pcapFilesLocally,
                 filteredPcapFilesLocally, merged>>

\* filterWithTshark (285-301) settles and the round ends (279-280):
\* spawn('tshark'); 'error' rejects, 'close' resolves whatever the exit code.
FilterWithTshark ==
  /\ pc = "filter"
  /\ \E call \in inFlight, outcome \in {"error", "close 0", "close 1"} :
       /\ inFlight' = inFlight \ {call}
       /\ log' = Append(log, Event("tshark", call.arg, outcome = "close 0"))
       /\ IF outcome # "error"
            THEN LET newFilesnames ==
                       Append(pcapFilenames, FilteredName(pcapFilesLocally[call.arg]))
                 IN /\ IF index + 1 < Len(pcapFilesLocally)
                         THEN /\ index' = index + 1
                              /\ pcapFilenames' = newFilesnames
                              /\ UNCHANGED <<pc, filteredPcapFilesLocally>>
                         ELSE /\ index' = 0
                              /\ pcapFilenames' = <<>>
                              /\ filteredPcapFilesLocally' = newFilesnames
                              /\ pc' = "merge"
                    /\ UNCHANGED <<exitStatus, diagnostic>>
            ELSE /\ reject
                 /\ UNCHANGED <<index, pcapFilenames, filteredPcapFilesLocally>>
  /\ UNCHANGED <<parameters, finalFilename, reports, tmpFolder, finalFile, ips,
                 remote, pcapFilesOnS3, pcapFilesOnBlobStorage, pcapFilesLocally,
                 merged>>

\* What mergecap does with n input files.  spawn 'error' when it cannot be
\* run; otherwise 'close', with an exit code and merged.pcap written or not.
\* mergecap needs at least one input file: with none it writes nothing and
\* ends with code 1.
MergeOutcomes(n) ==
  {[event |-> "error", code |-> 1, written |-> FALSE],
   [event |-> "close", code |-> 1, written |-> FALSE]}
  \cup IF n = 0 THEN {}
       ELSE {[event |-> "close", code |-> 0, written |-> TRUE],
             [event |-> "close", code |-> 1, written |-> TRUE]}

\* mergePcapFiles (255-272): spawn('mergecap'); 'error' rejects, 'close'
\* resolves whatever the exit code.
MergePcapFiles ==
  /\ pc = "merge"
  /\ \E outcome \in MergeOutcomes(Len(filteredPcapFilesLocally)) :
       /\ log' = Append(log, Event("mergecap", Len(filteredPcapFilesLocally),
                                   outcome.event = "close" /\ outcome.code = 0))
       /\ merged' = outcome.written
       /\ IF outcome.event = "error"
            THEN reject
            ELSE /\ pc' = "rename"
                 /\ UNCHANGED <<exitStatus, diagnostic>>
  /\ UNCHANGED <<parameters, finalFilename, inFlight, reports, tmpFolder, finalFile,
                 ips, remote, index, pcapFilesOnS3, pcapFilesOnBlobStorage,
                 pcapFilenames, pcapFilesLocally, filteredPcapFilesLocally>>

\* Lines 166-175: renameSync (throws when merged.pcap is not there), then the
\* scratch folder is removed and the run is complete.
Finish ==
  /\ pc = "rename"
  /\ IF merged
       THEN /\ log' = log \o <<Event("rename", 0, TRUE), Event("rmdir", 0, TRUE)>>
            /\ merged' = FALSE
            /\ finalFile' = TRUE
            /\ tmpFolder' = "removed"
            /\ pc' = "done"
            /\ exitStatus' = "zero"
            /\ diagnostic' = "complete"
       ELSE /\ log' = Append(log, Event("rename", 0, FALSE))
            /\ reject
            /\ UNCHANGED <<merged, tmpFolder, finalFile>>
  /\ UNCHANGED <<parameters, finalFilename, inFlight, reports, ips, remote, index,
                 pcapFilesOnS3, pcapFilesOnBlobStorage, pcapFilenames,
                 pcapFilesLocally, filteredPcapFilesLocally>>

\* ---- a run of the script
Init ==
  /\ given = {}
  /\ from = NaN
  /\ to = NaN
  /\ simIds = <<>>
  /\ iccIds = <<>>
  /\ ips = <<>>
  /\ remote = {}
  /\ pc = "start"
  /\ tmpFolder = "absent"
  /\ exitStatus = "running"
  /\ diagnostic = "none"
  /\ log = <<>>
  /\ index = 0
  /\ pcapFilesOnS3 = <<>>
  /\ pcapFilesOnBlobStorage = <<>>
  /\ pcapFilenames = <<>>
  /\ pcapFilesLocally = <<>>
  /\ filteredPcapFilesLocally = <<>>
  /\ merged = FALSE
  /\ finalFile = FALSE
  /\ finalFilename = NoName
  /\ inFlight = {}
  /\ reports = <<>>

Next ==
  \/ Start
  \/ MergeCapExists
  \/ GetPublicVersion
  \/ GetIpFromSimId
  \/ ConvertSimId
  \/ GetIpFromIccId
  \/ ConvertIccId
  \/ ListS3
  \/ DownloadAllPcapFilesOnS3
  \/ DownloadPcapFileOnS3
  \/ ListBlobStorage
  \/ DownloadAllPcapFilesOnBlobStorage
  \/ DownloadPcapFileOnBlobStorage
  \/ FilterPcapFiles
  \/ FilterWithTshark
  \/ MergePcapFiles
  \/ Finish

Spec == Init /\ [][Next]_vars

\* ---- the listing routines called directly on a range and a backend, once and
\* then once again
\* DirectS3 with the files listed added to those of the call before.
DirectS3_accumulating ==
  /\ pc \in {"direct", "listed S3"}
  /\ LET listed == getListOfAllPcapFilesOnS3Recursive(remote, from, to)
     IN /\ log' = log \o ListEvents("listS3", listed.calls)
        /\ pcapFilesOnS3' = pcapFilesOnS3 \o listed.files
  /\ pc' = IF pc = "direct" THEN "listed S3" ELSE "listed S3 twice"
  /\ UNCHANGED <<parameters, finalFilename, inFlight, reports, ips, remote,
                 tmpFolder, exitStatus, diagnostic, index, pcapFilesOnBlobStorage, pcapFilenames,
                 pcapFilesLocally, filteredPcapFilesLocally, merged, finalFile>>

DirectS3 ==
  /\ pc \in {"direct", "listed S3"}
  /\ LET listed == getListOfAllPcapFilesOnS3Recursive(remote, from, to)
     IN /\ log' = log \o ListEvents("listS3", listed.calls)
        /\ pcapFilesOnS3' = listed.files
  /\ pc' = IF pc = "direct" THEN "listed S3" ELSE "listed S3 twice"
  /\ UNCHANGED <<parameters, finalFilename, inFlight, reports, ips, remote,
                 tmpFolder, exitStatus, diagnostic, index, pcapFilesOnBlobStorage, pcapFilenames,
                 pcapFilesLocally, filteredPcapFilesLocally, merged, finalFile>>

DirectBlobStorage ==
  /\ pc \in {"direct", "listed Blob Storage"}
  /\ LET listed == getListOfAllPcapFilesOnBlobStorageRecursive(remote, from, to)
     IN /\ log' = log \o ListEvents("listBlob", listed.calls)
        /\ pcapFilesOnBlobStorage' = listed.files
  /\ pc' = IF pc = "direct" THEN "listed Blob Storage" ELSE "listed Blob Storage twice"
  /\ UNCHANGED <<parameters, finalFilename, inFlight, reports, ips, remote,
                 tmpFolder, exitStatus, diagnostic, index, pcapFilesOnS3, pcapFilenames,
                 pcapFilesLocally, filteredPcapFilesLocally, merged, finalFile>>

ListerInit ==
  /\ given = {}
  /\ from \in Times
  /\ to \in Times
  /\ simIds = <<>>
  /\ iccIds = <<>>
  /\ ips = <<>>
  /\ remote \in Stores
  /\ pc = "direct"
  /\ tmpFolder = "absent"
  /\ exitStatus = "running"
  /\ diagnostic = "none"
  /\ log = <<>>
  /\ index = 0
  /\ pcapFilesOnS3 = <<>>
  /\ pcapFilesOnBlobStorage = <<>>
  /\ pcapFilenames = <<>>
  /\ pcapFilesLocally = <<>>
  /\ filteredPcapFilesLocally = <<>>
  /\ merged = FALSE
  /\ finalFile = FALSE
  /\ finalFilename = NoName
  /\ inFlight = {}
  /\ reports = <<>>

ListerNext == DirectS3 \/ DirectBlobStorage

ListerSpec == ListerInit /\ [][ListerNext]_vars

\* ---- generateFilename called directly on a range and lists of identifiers
GenerateFilename ==
  /\ pc = "direct"
  /\ finalFilename' = generateFilename
  /\ pc' = "named"
  /\ UNCHANGED <<parameters, inFlight, reports, ips, remote, tmpFolder, exitStatus,
                 diagnostic, log, index, pcapFilesOnS3, pcapFilesOnBlobStorage,
                 pcapFilenames, pcapFilesLocally, filteredPcapFilesLocally, merged,
                 finalFile>>

NameInit ==
  /\ given = {}
  /\ from \in Times
  /\ to \in Times
  /\ from < to
  /\ simIds \in {Given(n) : n \in 0 .. MaxNamed}
  /\ iccIds \in {Given(n) : n \in 0 .. MaxNamed}
  /\ ips \in {Given(n) : n \in 0 .. MaxNamed}
  /\ remote = {}
  /\ pc = "direct"
  /\ tmpFolder = "absent"
  /\ exitStatus = "running"
  /\ diagnostic = "none"
  /\ log = <<>>
  /\ index = 0
  /\ pcapFilesOnS3 = <<>>
  /\ pcapFilesOnBlobStorage = <<>>
  /\ pcapFilenames = <<>>
  /\ pcapFilesLocally = <<>>
  /\ filteredPcapFilesLocally = <<>>
  /\ merged = FALSE
  /\ finalFile = FALSE
  /\ finalFilename = NoName
  /\ inFlight = {}
  /\ reports = <<>>

NameNext == GenerateFilename

NameSpec == NameInit /\ [][NameNext]_vars

\* ---- the paths of the files a run writes, as strings of tokens
\* What follows the first '-' of a key, before ".pcap".
Rests == UNION {[1 .. n -> {"a", "/", "-"}] : n \in 0 .. MaxRest}

\* The keys a listing returns: under a day prefix, with a time of day that
\* parses, and any rest.
DiscoveredKeys ==
  [day : 0 .. (Days - 1), hm : 0 .. (TicksPerDay - 1), rest : Rests]

\* The key "yyyy/MM/dd/HH/mm-rest.pcap" as a string.
KeyString(key) ==
  <<ToString(key.day), "/", ToString(key.hm), "-">> \o key.rest \o <<".pcap">>

\* key.replace(/\//g, '-') (196, 225)
replaceSlashes(str) == [i \in 1 .. Len(str) |-> IF str[i] = "/" THEN "-" ELSE str[i]]

\* path.join(dir, base)
join(dir, base) == dir \o <<"/">> \o base

\* The place of the last separator of a path, 0 when it has none.
LastSeparator(filename) ==
  IF \E i \in 1 .. Len(filename) : filename[i] = "/"
    THEN CHOOSE i \in 1 .. Len(filename) :
           filename[i] = "/" /\ \A j \in (i + 1) .. Len(filename) : filename[j] # "/"
    ELSE 0

\* path.dirname(filename) and path.basename(filename) (286-287)
dirname(filename) ==
  IF LastSeparator(filename) = 0 THEN <<".">>
  ELSE SubSeq(filename, 1, LastSeparator(filename) - 1)

basename(filename) == SubSeq(filename, LastSeparator(filename) + 1, Len(filename))

\* fs.mkdtempSync('tmp-') (52): a folder of the working directory.
tmpFolderPath == <<"tmp-XXXXXX">>

\* path.join(tmpFolder, key.replace(/\//g, '-')) (196, 225)
downloadPath(key) == join(tmpFolderPath, replaceSlashes(KeyString(key)))

\* path.join(dir, `f-${base}`) (286-288)
filteredPath(filename) == join(dirname(filename), <<"f-">> \o basename(filename))

\* mergecap writing merged.pcap where it was started from, with no cwd.
mergePath_noCwd == <<"merged.pcap">>

\* mergecap -w merged.pcap with cwd: tmpFolder, path.join(tmpFolder,
\* 'merged.pcap') (257-270)
mergePath == join(tmpFolderPath, <<"merged.pcap">>)

\* finalFilename (109, 169): a name with no folder, taken from the working
\* directory.
finalPath == <<"Onomondo traffic.pcap">>

\* The download loop and the loop of filterPcapFiles over a listing: the
\* paths the downloads are written to and the paths tshark writes to.
LocalPaths ==
  /\ pc = "direct"
  /\ pcapFilesLocally' =
       [i \in 1 .. Len(pcapFilesOnS3) |-> downloadPath(pcapFilesOnS3[i])]
  /\ filteredPcapFilesLocally' =
       [i \in 1 .. Len(pcapFilesOnS3) |-> filteredPath(downloadPath(pcapFilesOnS3[i]))]
  /\ pc' = "written"
  /\ UNCHANGED <<parameters, finalFilename, inFlight, reports, ips, remote,
                 tmpFolder, exitStatus, diagnostic, log, index, pcapFilesOnS3,
                 pcapFilesOnBlobStorage, pcapFilenames, merged, finalFile>>

PathInit ==
  /\ given = {}
  /\ from = NaN
  /\ to = NaN
  /\ simIds = <<>>
  /\ iccIds = <<>>
  /\ ips = <<>>
  /\ remote = {}
  /\ pc = "direct"
  /\ tmpFolder = "present"
  /\ exitStatus = "running"
  /\ diagnostic = "none"
  /\ log = <<>>
  /\ index = 0
  /\ pcapFilesOnS3 \in
       {<<k>> : k \in DiscoveredKeys}
       \cup {pair \in DiscoveredKeys \X DiscoveredKeys : pair[1] # pair[2]}
  /\ pcapFilesOnBlobStorage = <<>>
  /\ pcapFilenames = <<>>
  /\ pcapFilesLocally = <<>>
  /\ filteredPcapFilesLocally = <<>>
  /\ merged = FALSE
  /\ finalFile = FALSE
  /\ finalFilename = NoName
  /\ inFlight = {}
  /\ reports = <<>>

PathNext == LocalPaths

PathSpec == PathInit /\ [][PathNext]_vars

\* ---- what a direct call of a listing routine returned
Listed == pc \in {"listed S3", "listed Blob Storage"}

ListedFiles == IF pc = "listed S3" THEN pcapFilesOnS3 ELSE pcapFilesOnBlobStorage

ListedKeys == {ListedFiles[i] : i \in 1 .. Len(ListedFiles)}

\* The embedded timestamp of a key lies strictly inside the range from..to.
StampedInside(key) == isValid(parse(key)) /\ from < parse(key) /\ parse(key) < to

\* The UTC days that hold an instant of the range: from <= t < to.
DaysOfRange == {format(t) : t \in from .. (to - 1)}

\* C1: for a range with from < to, a listing routine returns only objects the
\* backend holds whose embedded timestamp t satisfies from < t < to, for the
\* bounds of the range it was called with.
C1_ListedOnlyInside ==
  (Listed /\ from < to) =>
    \A i \in 1 .. Len(ListedFiles) :
      ListedFiles[i] \in remote /\ StampedInside(ListedFiles[i])

\* A range over two days, with an object returned and another one left out.
C1_Witness ==
  /\ Listed
  /\ from < to
  /\ format(from) < format(to)
  /\ ListedFiles # <<>>
  /\ remote \ ListedKeys # {}

\* C2: for a range with from < to, a listing routine returns every object the
\* backend holds whose embedded timestamp t satisfies from < t < to.
C2_ListedAllInside ==
  (Listed /\ from < to) =>
    \A key \in remote : StampedInside(key) => key \in ListedKeys

\* C3: for a range with from >= to, a listing routine called directly returns
\* nothing and makes no listing call.
C3_NoCallOnInvertedOrEqualRange ==
  (Listed /\ from >= to) => (ListedFiles = <<>> /\ log = <<>>)

\* C4: for a range with from < to, a listing routine makes one listing call
\* for each UTC day of the range and no other: as many calls as the range has
\* days, each with the prefix of another day.
C4_OneCallPerDayOfRange ==
  (Listed /\ from < to) =>
    /\ Len(log) = Cardinality(DaysOfRange)
    /\ {log[i].arg : i \in 1 .. Len(log)} = DaysOfRange

\* ---- what a run has done so far
BackendOps == {"listS3", "listBlob", "getS3", "getBlob"}

\* Some call of the log, of one of the operations ops, failed.
Failed(ops) == \E i \in 1 .. Len(log) : log[i].op \in ops /\ ~log[i].ok

IdentifierWithoutToken ==
  (Len(simIds) > 0 \/ Len(iccIds) > 0) /\ "token" \notin given

\* C5: when the probe of mergecap finds it cannot be run, the run ends by
\* exit(1) and its log holds no listing call and no download, then or later.
C5_NoBackendCallWithoutMergecap ==
  Failed({"probe"}) =>
    /\ pc = "exited"
    /\ exitStatus = "nonzero"
    /\ Ops(log) \cap BackendOps = {}

C5_Witness ==
  /\ pc = "exited"
  /\ diagnostic = "mergecap"
  /\ Failed({"probe"})

\* C6: when a simid or an iccid is given and no token, the run ends by exit(1)
\* before run() is called: no lookup, no listing call and no download is made.
C6_NoCallWithoutToken ==
  (IdentifierWithoutToken /\ pc # "start") =>
    /\ pc = "exited"
    /\ exitStatus = "nonzero"
    /\ Ops(log) \cap (BackendOps \cup {"lookup"}) = {}

\* The token is the only thing the parameters lack.
C6_Witness ==
  /\ IdentifierWithoutToken
  /\ pc = "exited"
  /\ diagnostic = "token"

\* C7: when the process has ended, in success or in any error, the scratch
\* folder made at the start is no longer there.
C7_ScratchGoneAtTermination == Terminated => tmpFolder # "present"

\* C8: a lookup that is answered with a failure is the last call of the run:
\* run() is rejected there, nothing is listed, downloaded, filtered or merged
\* afterwards, and no final file is made.
C8_LookupFailureAborts ==
  \A i \in 1 .. Len(log) :
    (log[i].op = "lookup" /\ ~log[i].ok) =>
      /\ i = Len(log)
      /\ pc = "rejected"
      /\ ~finalFile

\* The second lookup fails after the first one gave an address.
C8_Witness ==
  /\ pc = "rejected"
  /\ Failed({"lookup"})
  /\ \E i \in 1 .. Len(log) : log[i].op = "lookup" /\ log[i].ok

\* Exactly one backend has all its parameters, the other has none.
ExactlyOneFullSet ==
  \/ hasAllS3Params /\ ~isUsingBlobStorage
  \/ hasAllBlobStorageParams /\ ~isUsingS3

\* C9: a run makes a network call only when the parameters of exactly one
\* backend are all given and none of the other.
C9_NetworkOnlyWithOneBackend ==
  (Ops(log) \cap NetworkOps # {}) => ExactlyOneFullSet

\* C10: tshark is never run after mergecap; the rename comes only after a
\* mergecap run that closed; a run that is complete has merged and renamed;
\* and while there is no address to filter by, tshark is never run.
C10_StageOrder ==
  /\ \A i, j \in 1 .. Len(log) :
       (log[i].op = "mergecap" /\ log[j].op = "tshark") => j < i
  /\ \A j \in 1 .. Len(log) :
       log[j].op = "rename" => (j > 1 /\ log[j - 1].op = "mergecap")
  /\ pc = "done" => {"mergecap", "rename"} \subseteq Ops(log)
  /\ ips = <<>> => "tshark" \notin Ops(log)

\* A complete run that filtered its files.
C10_Witness ==
  /\ pc = "done"
  /\ "tshark" \in Ops(log)

\* C11: a tshark run that fails, whether tshark cannot be spawned or ends with
\* an exit code other than 0, is the last call of the run: run() is rejected
\* there, no file is filtered, merged or renamed afterwards and no final file
\* is made.
C11_FilterFailureAborts ==
  \A i \in 1 .. Len(log) :
    (log[i].op = "tshark" /\ ~log[i].ok) =>
      /\ i = Len(log)
      /\ pc = "rejected"
      /\ ~finalFile

\* C12: after a mergecap run that failed, whether mergecap cannot be spawned
\* or ends with an exit code other than 0, the rename is not attempted, the
\* run is never complete and no final file is made.
C12_MergeFailureIsFatal ==
  Failed({"mergecap"}) =>
    /\ "rename" \notin Ops(log)
    /\ pc # "done"
    /\ ~finalFile

\* mergecap was run on no input file and closed, and the rename was tried.
MergedNothing ==
  /\ \E i \in 1 .. Len(log) : log[i].op = "mergecap" /\ log[i].arg = 0
  /\ "rename" \in Ops(log)

\* C13: a run whose range matched no object, once mergecap has closed and
\* the rename was tried, is complete with the final file made.
C13_NoObjectStillComplete ==
  MergedNothing => (pc = "done" /\ finalFile)

NoDuplicate(s) == \A i, j \in 1 .. Len(s) : s[i] = s[j] => i = j

\* C14: the addresses a tshark run was given to filter by hold no address
\* twice.
C14_FilterWithoutDuplicate ==
  (\E call \in inFlight : call.op = "tshark") => NoDuplicate(ips)

\* ---- the packets of the files, with tshark and mergecap taken by what they
\* are called to do
\* An object holds a packet of every address.
Packets(key) == {[key |-> key, addr |-> a] : a \in Addresses}

\* The display filter of lines 286-293: ip.addr == ips[1] or ip.addr == ...
DisplayFilter == {ips[i] : i \in 1 .. Len(ips)}

\* What a file of the scratch folder holds: a download holds the packets of
\* its object, a file written by tshark -Y those the display filter lets by.
Content(filename) ==
  IF filename.filtered
    THEN {p \in Packets(filename.key) : p.addr \in DisplayFilter}
    ELSE Packets(filename.key)

\* What mergecap -w merged.pcap writes from the files it is called with
\* (260-264), which the rename makes the final file.
Output ==
  UNION {Content(filteredPcapFilesLocally[i]) : i \in 1 .. Len(filteredPcapFilesLocally)}

\* The objects the run has downloaded.
Downloaded ==
  {pcapFilesOnS3[log[i].arg] : i \in {j \in 1 .. Len(log) : log[j].op = "getS3" /\ log[j].ok}}
  \cup {pcapFilesOnBlobStorage[log[i].arg] :
          i \in {j \in 1 .. Len(log) : log[j].op = "getBlob" /\ log[j].ok}}

\* C15: in a complete run where every tshark run and the mergecap run ended
\* with code 0, the final file holds, when addresses are given or resolved,
\* exactly the packets of the downloaded objects that have one of these
\* addresses, and otherwise exactly the packets of the downloaded objects.
C15_OutputIsFilteredMerge ==
  (pc = "done" /\ ~Failed({"tshark", "mergecap"})) =>
    Output = {p \in UNION {Packets(key) : key \in Downloaded} :
                ips = <<>> \/ p.addr \in DisplayFilter}

\* C16: a run that has ended otherwise than complete has ended with a status
\* other than 0 and a diagnostic, and a run that has ended with status 0 has
\* made the final file.
C16_NonzeroUnlessFinalFile ==
  /\ (Terminated /\ pc # "done") => (exitStatus = "nonzero" /\ diagnostic # "none")
  /\ exitStatus = "zero" => finalFile

\* C17: when one of the checks of the parameters fails, the script ends by
\* exit(1) with no call made and no scratch folder made before.
C17_ChecksBeforeAnyIO ==
  (pc # "start" /\ ValidationError # "none") =>
    /\ pc = "exited"
    /\ log = <<>>
    /\ tmpFolder = "absent"

\* The iccids, simids and ips a name is made from.
NumberOfIds == Len(iccIds) + Len(simIds) + Len(ips)

\* C18: the name generateFilename makes carries the formatted bounds of the
\* range, and it names the identifiers, all of them and in the order iccids,
\* simids, ips, exactly when their number is between 1 and 5; with none or
\* more than 5 it is the name of the range alone.
C18_NameOfRangeAndUpToFiveIds ==
  pc = "named" =>
    /\ finalFilename.from = formatMinutes(from)
    /\ finalFilename.to = formatMinutes(to)
    /\ (finalFilename.ids # <<>>) <=> (NumberOfIds \in 1 .. 5)
    /\ NumberOfIds \in 1 .. 5 => finalFilename.ids = iccIds \o simIds \o ips

\* Six identifiers, and the name of the range alone.
C18_Witness ==
  /\ pc = "named"
  /\ NumberOfIds = 6
  /\ finalFilename.ids = <<>>

\* The calls of one operation that have settled, in the order they settled.
Calls(op) == SelectSeq(log, LAMBDA e : e.op = op)

\* C19: at no time has a loop more than one call in flight, and the k-th
\* download of a backend to settle is that of the k-th object of its listing,
\* the k-th tshark run to settle that of the k-th downloaded file.
C19_OneCallAtATime ==
  /\ Cardinality(inFlight) <= 1
  /\ \A op \in {"getS3", "getBlob", "tshark"} :
       \A k \in 1 .. Len(Calls(op)) : Calls(op)[k].arg = k

\* A complete run that looked up two identifiers, downloaded two objects and
\* filtered the two files.
C19_Witness ==
  /\ pc = "done"
  /\ Len(Calls("lookup")) = 2
  /\ Len(Calls("getS3")) = 2
  /\ Len(Calls("tshark")) = 2

\* The bytes of the objects of a listing whose download has ended well.
Fetched(op, files) ==
  LET done == SelectSeq(log, LAMBDA e : e.op = op /\ e.ok)
  IN totalSize([k \in 1 .. Len(done) |-> files[done[k].arg]])

ListingOf(op) == IF op = "getS3" THEN pcapFilesOnS3 ELSE pcapFilesOnBlobStorage

Reports(op) == SelectSeq(reports, LAMBDA r : r.op = op)

\* C20: the i-th progress line of a download loop states i of n files and the
\* bytes of the first i objects of all bytes; it is written when the i-th
\* download has ended, so that it never states more files or bytes than are
\* downloaded, nor more than the total; and a loop that has downloaded its n
\* objects has written n lines.
C20_ProgressAfterEachFetch ==
  \A op \in {"getS3", "getBlob"} :
    LET files == ListingOf(op)
        lines == Reports(op)
    IN /\ \A i \in 1 .. Len(lines) :
            /\ lines[i].files = i
            /\ lines[i].totalFiles = Len(files)
            /\ lines[i].downloadedSize = totalSize(SubSeq(files, 1, i))
            /\ lines[i].totalSize = totalSize(files)
            /\ lines[i].downloadedSize <= lines[i].totalSize
            /\ i <= Len(Calls(op))
            /\ lines[i].downloadedSize <= Fetched(op, files)
       /\ Len(SelectSeq(log, LAMBDA e : e.op = op /\ e.ok)) = Len(files) =>
            Len(lines) = Len(files)

\* C21: a download that fails, by an error of the backend read or of the
\* local write, is the last call of the run: the run ends there, rejected or
\* by an uncaught exception, with no call in flight; no later object is
\* downloaded, the object is not asked for again, nothing is filtered, merged
\* or renamed afterwards and no final file is made.
C21_DownloadFailureAborts ==
  \A i \in 1 .. Len(log) :
    (log[i].op \in {"getS3", "getBlob"} /\ ~log[i].ok) =>
      /\ i = Len(log)
      /\ pc \in {"rejected", "crashed"}
      /\ inFlight = {}
      /\ ~finalFile

\* The second download of a listing of two objects fails after the first one
\* ended well.
C21_Witness ==
  /\ pc \in {"rejected", "crashed"}
  /\ Failed({"getS3", "getBlob"})
  /\ \E i \in 1 .. Len(log) : log[i].op \in {"getS3", "getBlob"} /\ log[i].ok
  /\ Len(pcapFilesOnS3) = 2 \/ Len(pcapFilesOnBlobStorage) = 2

\* The files of the downloads that ended well, in the order they were made.
DownloadedFiles ==
  LET done == SelectSeq(log, LAMBDA e : e.op \in {"getS3", "getBlob"} /\ e.ok)
  IN [k \in 1 .. Len(done) |-> LocalName(ListingOf(done[k].op)[done[k].arg])]

\* C22: mergecap is run once at most, and once it has been run: with
\* addresses to filter by, tshark was run once for each downloaded file and
\* mergecap was given the filtered file of each download, in the order of the
\* downloads, and no download itself; with no address, mergecap was given
\* exactly the downloaded files in the order of the downloads.
C22_OneFilteredFilePerDownload ==
  ("mergecap" \in Ops(log)) =>
    /\ Len(Calls("mergecap")) = 1
    /\ ips # <<>> => Len(Calls("tshark")) = Len(DownloadedFiles)
    /\ filteredPcapFilesLocally =
         IF ips # <<>>
           THEN [k \in 1 .. Len(DownloadedFiles) |-> FilteredName(DownloadedFiles[k])]
           ELSE DownloadedFiles

\* A path lies in the scratch folder: right under it, or deeper.
InScratch(filename) ==
  /\ Len(filename) > 2
  /\ SubSeq(filename, 1, 2) = tmpFolderPath \o <<"/">>
  /\ \A i \in 1 .. Len(filename) : filename[i] # ".."

\* The paths of the files written before the rename.
WrittenBeforeRename ==
  {pcapFilesLocally[i] : i \in 1 .. Len(pcapFilesLocally)}
  \cup {filteredPcapFilesLocally[i] : i \in 1 .. Len(filteredPcapFilesLocally)}
  \cup {mergePath}

\* C23: every download, every file tshark writes and the file mergecap writes
\* lie in the scratch folder; the final name the rename moves the merge to
\* does not.
C23_OnlyTheRenameLeavesScratch ==
  pc = "written" =>
    /\ \A filename \in WrittenBeforeRename : InScratch(filename)
    /\ ~InScratch(finalPath)

\* Two objects, one with a '/' after its time of day.
C23_Witness ==
  /\ pc = "written"
  /\ Len(filteredPcapFilesLocally) = 2
  /\ \E i \in 1 .. 2 : \E j \in 1 .. Len(pcapFilesOnS3[i].rest) :
       pcapFilesOnS3[i].rest[j] = "/"

\* C26: the downloads of two different keys are written to different paths,
\* and the path of a file tshark writes is neither the path of a download nor
\* the path mergecap writes to.
C26_DistinctLocalPaths ==
  pc = "written" =>
    /\ \A i, j \in 1 .. Len(pcapFilesLocally) :
         pcapFilesOnS3[i] # pcapFilesOnS3[j] => pcapFilesLocally[i] # pcapFilesLocally[j]
    /\ \A i \in 1 .. Len(filteredPcapFilesLocally) :
         /\ filteredPcapFilesLocally[i] # mergePath
         /\ \A j \in 1 .. Len(pcapFilesLocally) :
              filteredPcapFilesLocally[i] # pcapFilesLocally[j]

\* C24: for any two instants from and to, a listing routine ends; each of
\* its listing calls is for a later day than the call before, no call is for
\* a day that begins after to, and the calls are no more than the days of
\* the range plus one.
C24_ListingCallsBounded ==
  Listed =>
    /\ \A i \in 1 .. (Len(log) - 1) : log[i].arg < log[i + 1].arg
    /\ \A i \in 1 .. Len(log) : log[i].arg * TicksPerDay <= to
    /\ Len(log) <= Cardinality(DaysOfRange) + 1

\* A range of more than one call, with one call more than it has days.
C24_Witness ==
  /\ Listed
  /\ Len(log) >= 2
  /\ Len(log) = Cardinality(DaysOfRange) + 1

====
